---- MODULE Spec2Model ----
(***************************************************************************)
(* Model of the Redis-stream worker pool of go-redis-stream-worker.        *)
(*                                                                         *)
(* Two programs of the repository are modelled over the same broker state: *)
(*   - the pooled Worker with graceful shutdown (Worker.run,               *)
(*     Worker.processMessage, Worker.updateStatus,                         *)
(*     Worker.acknowledgeMessage and main), specification Spec;            *)
(*   - the worker loop of backend/main.go (worker, updateStatus, main),    *)
(*     specification SpecBackend.                                          *)
(* The startup of the two programs (group creation, start of the workers)  *)
(* is modelled by SpecBoot and SpecBackendBoot, from the broker states a   *)
(* process can find.  SpecBody is Spec with a producer that also appends   *)
(* entries without body.  SpecStatus is the pool together with the status  *)
(* store of the API (/produce, /status/:id, /update-status), and SpecApi   *)
(* is the API alone with arbitrary clients.                                *)
(*                                                                         *)
(* The broker is the Redis consumer group the code talks to: a stream of   *)
(* entries, the group's last-delivered id and its pending entries list.    *)
(* A delivery token (XMessage.ID) is the position of the entry in the      *)
(* stream.  The owner of a pending entry is not recorded: with the ">" id   *)
(* the program never reads it.  A broker call that returns an error has    *)
(* had no effect on the broker.                                            *)
(***************************************************************************)
EXTENDS Integers, Sequences, FiniteSets, TLC

\* Bounds of the model.
NumWorkers == 2
MaxRecords == 2

\* consumer-%d for i = 0 .. WorkerCount-1
Workers == 0 .. (NumWorkers - 1)

\* cur[w] when the worker holds no message
NoToken == 0
\* a field that is absent from XMessage.Values
NoValue == 0
\* the value of a field that is present (stream fields are strings)
StringValue == 1

VARIABLES
    stream,         \* broker: the entries of the stream, in order
    lastDelivered,  \* broker: the group's last-delivered id
    pending,        \* broker: the tokens in the group's pending entries list
    connClosed,     \* redisClient.Close() has been called
    pc,             \* position of each worker goroutine
    cur,            \* message.ID held by each worker (NoToken: none)
    reportFailed,   \* statuses whose updateStatus returned an error for cur[w]
    log,            \* history: per token, the steps performed on it, in order
    cancelled,      \* ctx.Done() is closed (cancel() was called)
    mainPc,         \* position of the main goroutine
    waitCh,         \* waitCh is closed
    wg,             \* counter of the sync.WaitGroup
    shutdownPath,   \* the case the select of main has taken
    groupExists,    \* broker: the consumer group exists on the stream
    groupErr,       \* main: the error of the group creation ("nil": none)
    worker,         \* the Worker structs built by main, by worker id
    messageStatuses \* API: the status store, by job id

brokerVars == <<stream, lastDelivered, pending, connClosed>>
workerVars == <<pc, cur, reportFailed, log>>
mainVars   == <<cancelled, mainPc, waitCh, wg, shutdownPath>>
bootVars   == <<groupExists, groupErr, worker>>
restVars   == <<groupExists, groupErr, worker, messageStatuses>>
vars == <<stream, lastDelivered, pending, connClosed,
          pc, cur, reportFailed, log,
          cancelled, mainPc, waitCh, wg, shutdownPath,
          groupExists, groupErr, worker, messageStatuses>>

Tokens == 1 .. Len(stream)

\* config.StreamName and config.GroupName (loadConfig)
StreamName == "mystream"
GroupName == "mygroup"

\* %d: the decimal digits of i, most significant first
RECURSIVE Decimal(_)
Decimal(i) == IF i < 10 THEN <<i>> ELSE Append(Decimal(i \div 10), i % 10)

\* Variant of Sprintf_consumer: the consumer name does not depend on i.
Sprintf_consumer_Fixed(i) == <<"consumer-">> \o Decimal(1)

\* fmt.Sprintf("consumer-%d", i)
Sprintf_consumer(i) == <<"consumer-">> \o Decimal(i)

\* worker := &Worker{id: i, consumer: ..., group: ..., stream: ...}
NewWorker(i) ==
    [id       |-> i,
     consumer |-> Sprintf_consumer(i),
     group    |-> GroupName,
     stream   |-> StreamName]

\* The answers of POST /update-status as the worker sees them.
Responses == {"200", "404", "transportError"}

\* message.Values["id"].(string): the ok flag of the type assertion
StringAssert(v) == v # NoValue

\* The process is running: goroutines only run until main returns.
Alive == mainPc # "exited"

\* The positions of a worker that holds a claimed, not yet acknowledged message.
ItemStates == {"reportProcessing", "execute", "reportCompleted", "ack", "ackInvalid"}

Holding(w, t) == pc[w] \in ItemStates /\ cur[w] = t

AppendLog(t, step) == [log EXCEPT ![t] = Append(@, step)]

----------------------------------------------------------------------------
(* The broker *)

\* XADD by the producer: a new entry with or without the id and body fields.
XAdd(hasId, hasBody) ==
    /\ Len(stream) < MaxRecords
    /\ stream' = Append(stream, [id   |-> IF hasId THEN StringValue ELSE NoValue,
                                 body |-> IF hasBody THEN StringValue ELSE NoValue])
    /\ log' = Append(log, <<>>)
    /\ UNCHANGED <<lastDelivered, pending, connClosed>>
    /\ UNCHANGED <<pc, cur, reportFailed>>
    /\ UNCHANGED mainVars
    /\ UNCHANGED restVars

\* Variant of NextID: the last delivered entry is requested again instead of
\* the entries after it.
NextID_Redeliver == IF lastDelivered = 0 THEN 1 ELSE lastDelivered

\* The special id ">" of XReadGroupArgs.Streams: the first entry never
\* delivered to any consumer of the group.
NextID == lastDelivered + 1

\* XACK: the entry leaves the pending entries list when the call succeeds.
\* A closed client answers every call with an error.
XAckOk(brokerOk) == brokerOk /\ ~connClosed

\* Variant of acknowledgeMessage: the entry is never removed from the
\* pending entries list.
acknowledgeMessage_NoXAck(t, brokerOk) ==
    /\ pending' = pending
    /\ log' = AppendLog(t, "ack")

acknowledgeMessage(t, brokerOk) ==
    /\ pending' = IF XAckOk(brokerOk)
                  THEN pending \ {t}
                  ELSE pending
    /\ log' = AppendLog(t, "ack")

\* Worker.updateStatus: TRUE when it returns an error (transport error or
\* a status code other than 200).
updateStatus(resp) == resp # "200"

----------------------------------------------------------------------------
(* Worker.run *)

\* Variant of run_CtxDone: the closed ctx.Done() does not end the loop.
run_CtxDone_Continue(w) ==
    /\ Alive
    /\ pc[w] = "check"
    /\ cancelled
    /\ pc' = [pc EXCEPT ![w] = "claim"]
    /\ UNCHANGED <<cur, reportFailed, log>>
    /\ UNCHANGED brokerVars
    /\ UNCHANGED mainVars
    /\ UNCHANGED restVars

\* select { case <-ctx.Done(): return }
run_CtxDone(w) ==
    /\ Alive
    /\ pc[w] = "check"
    /\ cancelled
    /\ pc' = [pc EXCEPT ![w] = "exited"]
    /\ wg' = wg - 1
    /\ UNCHANGED <<cur, reportFailed, log>>
    /\ UNCHANGED brokerVars
    /\ UNCHANGED <<cancelled, mainPc, waitCh, shutdownPath>>
    /\ UNCHANGED restVars

\* Variant of run_Default: the claim is issued without looking at ctx.Done().
run_Default_NoCheck(w) ==
    /\ Alive
    /\ pc[w] = "check"
    /\ pc' = [pc EXCEPT ![w] = "claim"]
    /\ UNCHANGED <<cur, reportFailed, log>>
    /\ UNCHANGED brokerVars
    /\ UNCHANGED mainVars
    /\ UNCHANGED restVars

\* select { default: } and the XReadGroup call is issued
run_Default(w) ==
    /\ Alive
    /\ pc[w] = "check"
    /\ ~cancelled
    /\ pc' = [pc EXCEPT ![w] = "claim"]
    /\ UNCHANGED <<cur, reportFailed, log>>
    /\ UNCHANGED brokerVars
    /\ UNCHANGED mainVars
    /\ UNCHANGED restVars

\* Variant of run_ReadMessage: processMessage does not look at the ok flag
\* of the type assertion.
run_ReadMessage_NoAssert(w) ==
    /\ Alive
    /\ pc[w] = "claim"
    /\ ~connClosed
    /\ groupExists
    /\ NextID \in Tokens
    /\ lastDelivered' = NextID
    /\ pending' = pending \cup {NextID}
    /\ cur' = [cur EXCEPT ![w] = NextID]
    /\ reportFailed' = [reportFailed EXCEPT ![w] = {}]
    /\ pc' = [pc EXCEPT ![w] = "reportProcessing"]
    /\ UNCHANGED <<stream, connClosed, log>>
    /\ UNCHANGED mainVars
    /\ UNCHANGED restVars

\* XReadGroup returns one message; processMessage starts with the type
\* assertion on the id field.
run_ReadMessage(w) ==
    /\ Alive
    /\ pc[w] = "claim"
    /\ ~connClosed
    /\ groupExists
    /\ NextID \in Tokens
    /\ lastDelivered' = NextID
    /\ pending' = pending \cup {NextID}
    /\ cur' = [cur EXCEPT ![w] = NextID]
    /\ reportFailed' = [reportFailed EXCEPT ![w] = {}]
    /\ pc' = [pc EXCEPT ![w] = IF StringAssert(stream[NextID].id)
                               THEN "reportProcessing"
                               ELSE "ackInvalid"]
    /\ UNCHANGED <<stream, connClosed, log>>
    /\ UNCHANGED mainVars
    /\ UNCHANGED restVars

\* XReadGroup returns redis.Nil: the block timeout passed with no new entry.
run_ReadNil(w) ==
    /\ Alive
    /\ pc[w] = "claim"
    /\ ~connClosed
    /\ groupExists
    /\ NextID \notin Tokens
    /\ pc' = [pc EXCEPT ![w] = "backoff"]
    /\ UNCHANGED <<cur, reportFailed, log>>
    /\ UNCHANGED brokerVars
    /\ UNCHANGED mainVars
    /\ UNCHANGED restVars

\* Variant of run_ReadError: the loop returns on a claim error.
run_ReadError_Return(w) ==
    /\ Alive
    /\ pc[w] = "claim"
    /\ pc' = [pc EXCEPT ![w] = "exited"]
    /\ wg' = wg - 1
    /\ UNCHANGED <<cur, reportFailed, log>>
    /\ UNCHANGED brokerVars
    /\ UNCHANGED <<cancelled, mainPc, waitCh, shutdownPath>>
    /\ UNCHANGED restVars

\* XReadGroup returns another error (connection error, closed client).
run_ReadError(w) ==
    /\ Alive
    /\ pc[w] = "claim"
    /\ pc' = [pc EXCEPT ![w] = "backoff"]
    /\ UNCHANGED <<cur, reportFailed, log>>
    /\ UNCHANGED brokerVars
    /\ UNCHANGED mainVars
    /\ UNCHANGED restVars

\* XReadGroup returns context.Canceled: the loop returns.
run_ReadCanceled(w) ==
    /\ Alive
    /\ pc[w] = "claim"
    /\ cancelled
    /\ pc' = [pc EXCEPT ![w] = "exited"]
    /\ wg' = wg - 1
    /\ UNCHANGED <<cur, reportFailed, log>>
    /\ UNCHANGED brokerVars
    /\ UNCHANGED <<cancelled, mainPc, waitCh, shutdownPath>>
    /\ UNCHANGED restVars

\* time.Sleep(1 * time.Second); continue
run_Backoff(w) ==
    /\ Alive
    /\ pc[w] = "backoff"
    /\ pc' = [pc EXCEPT ![w] = "check"]
    /\ UNCHANGED <<cur, reportFailed, log>>
    /\ UNCHANGED brokerVars
    /\ UNCHANGED mainVars
    /\ UNCHANGED restVars

----------------------------------------------------------------------------
(* Worker.processMessage *)

\* the id is not a string: acknowledge and return
processMessage_AckInvalid(w, brokerOk) ==
    /\ Alive
    /\ pc[w] = "ackInvalid"
    /\ acknowledgeMessage(cur[w], brokerOk)
    /\ pc' = [pc EXCEPT ![w] = "check"]
    /\ UNCHANGED <<stream, lastDelivered, connClosed>>
    /\ cur' = [cur EXCEPT ![w] = NoToken]
    /\ reportFailed' = [reportFailed EXCEPT ![w] = {}]
    /\ UNCHANGED mainVars
    /\ UNCHANGED restVars

\* Variant of processMessage_ReportProcessing: the 'completed' report follows
\* at once, before the execution.
processMessage_ReportProcessing_NoExecute(w, resp) ==
    /\ Alive
    /\ pc[w] = "reportProcessing"
    /\ log' = AppendLog(cur[w], "processing")
    /\ reportFailed' = [reportFailed EXCEPT ![w] =
                           IF updateStatus(resp) THEN @ \cup {"processing"} ELSE @]
    /\ pc' = [pc EXCEPT ![w] = "reportCompleted"]
    /\ UNCHANGED cur
    /\ UNCHANGED brokerVars
    /\ UNCHANGED mainVars
    /\ UNCHANGED restVars

\* updateStatus(messageID, "processing", nil); continue despite a failure
processMessage_ReportProcessing(w, resp) ==
    /\ Alive
    /\ pc[w] = "reportProcessing"
    /\ log' = AppendLog(cur[w], "processing")
    /\ reportFailed' = [reportFailed EXCEPT ![w] =
                           IF updateStatus(resp) THEN @ \cup {"processing"} ELSE @]
    /\ pc' = [pc EXCEPT ![w] = "execute"]
    /\ UNCHANGED cur
    /\ UNCHANGED brokerVars
    /\ UNCHANGED mainVars
    /\ UNCHANGED restVars

\* Variant of processMessage_Execute: the execution gives up when ctx is
\* cancelled and the loop returns with the message unacknowledged.
processMessage_Execute_Abort(w) ==
    /\ Alive
    /\ pc[w] = "execute"
    /\ log' = AppendLog(cur[w], "execute")
    /\ IF cancelled
       THEN /\ pc' = [pc EXCEPT ![w] = "exited"]
            /\ wg' = wg - 1
       ELSE /\ pc' = [pc EXCEPT ![w] = "reportCompleted"]
            /\ wg' = wg
    /\ UNCHANGED <<cur, reportFailed>>
    /\ UNCHANGED brokerVars
    /\ UNCHANGED <<cancelled, mainPc, waitCh, shutdownPath>>
    /\ UNCHANGED restVars

\* time.Sleep(w.config.ProcessingTime) and the result is computed
processMessage_Execute(w) ==
    /\ Alive
    /\ pc[w] = "execute"
    /\ log' = AppendLog(cur[w], "execute")
    /\ pc' = [pc EXCEPT ![w] = "reportCompleted"]
    /\ UNCHANGED <<cur, reportFailed>>
    /\ UNCHANGED brokerVars
    /\ UNCHANGED mainVars
    /\ UNCHANGED restVars

\* Variant of processMessage_ReportCompleted: processMessage returns when
\* the report fails, without acknowledging.
processMessage_ReportCompleted_Return(w, resp) ==
    /\ Alive
    /\ pc[w] = "reportCompleted"
    /\ log' = AppendLog(cur[w], "completed")
    /\ reportFailed' = [reportFailed EXCEPT ![w] =
                           IF updateStatus(resp) THEN @ \cup {"completed"} ELSE @]
    /\ pc' = [pc EXCEPT ![w] = IF updateStatus(resp) THEN "check" ELSE "ack"]
    /\ UNCHANGED cur
    /\ UNCHANGED brokerVars
    /\ UNCHANGED mainVars
    /\ UNCHANGED restVars

\* updateStatus(messageID, "completed", result)
processMessage_ReportCompleted(w, resp) ==
    /\ Alive
    /\ pc[w] = "reportCompleted"
    /\ log' = AppendLog(cur[w], "completed")
    /\ reportFailed' = [reportFailed EXCEPT ![w] =
                           IF updateStatus(resp) THEN @ \cup {"completed"} ELSE @]
    /\ pc' = [pc EXCEPT ![w] = "ack"]
    /\ UNCHANGED cur
    /\ UNCHANGED brokerVars
    /\ UNCHANGED mainVars
    /\ UNCHANGED restVars

\* Variant of processMessage_Ack: a failed acknowledgment is issued a second
\* time.
processMessage_Ack_Retry(w, brokerOk) ==
    /\ Alive
    /\ pc[w] = "ack"
    /\ acknowledgeMessage(cur[w], brokerOk)
    /\ UNCHANGED <<stream, lastDelivered, connClosed>>
    /\ IF ~XAckOk(brokerOk) /\ "ack" \notin {log[cur[w]][i] : i \in DOMAIN log[cur[w]]}
       THEN UNCHANGED <<pc, cur, reportFailed>>
       ELSE /\ pc' = [pc EXCEPT ![w] = "check"]
            /\ cur' = [cur EXCEPT ![w] = NoToken]
            /\ reportFailed' = [reportFailed EXCEPT ![w] = {}]
    /\ UNCHANGED mainVars
    /\ UNCHANGED restVars

\* w.acknowledgeMessage(message.ID) at the end of processMessage
processMessage_Ack(w, brokerOk) ==
    /\ Alive
    /\ pc[w] = "ack"
    /\ acknowledgeMessage(cur[w], brokerOk)
    /\ pc' = [pc EXCEPT ![w] = "check"]
    /\ UNCHANGED <<stream, lastDelivered, connClosed>>
    /\ cur' = [cur EXCEPT ![w] = NoToken]
    /\ reportFailed' = [reportFailed EXCEPT ![w] = {}]
    /\ UNCHANGED mainVars
    /\ UNCHANGED restVars

----------------------------------------------------------------------------
(* main of the worker pool *)

\* <-signalChan; cancel(); the goroutine of wg.Wait() is started
main_Signal ==
    /\ mainPc = "waitSignal"
    /\ cancelled' = TRUE
    /\ mainPc' = "select"
    /\ UNCHANGED <<waitCh, wg, shutdownPath>>
    /\ UNCHANGED brokerVars
    /\ UNCHANGED workerVars
    /\ UNCHANGED restVars

\* Variant of main_WaitGroup: waitCh is closed without wg.Wait().
main_WaitGroup_NoWait ==
    /\ mainPc \in {"select", "close", "return"}
    /\ ~waitCh
    /\ waitCh' = TRUE
    /\ UNCHANGED <<cancelled, mainPc, wg, shutdownPath>>
    /\ UNCHANGED brokerVars
    /\ UNCHANGED workerVars
    /\ UNCHANGED restVars

\* go func() { wg.Wait(); close(waitCh) }()
main_WaitGroup ==
    /\ mainPc \in {"select", "close", "return"}
    /\ ~waitCh
    /\ wg = 0
    /\ waitCh' = TRUE
    /\ UNCHANGED <<cancelled, mainPc, wg, shutdownPath>>
    /\ UNCHANGED brokerVars
    /\ UNCHANGED workerVars
    /\ UNCHANGED restVars

\* case <-waitCh:
main_SelectWaitCh ==
    /\ mainPc = "select"
    /\ waitCh
    /\ shutdownPath' = "graceful"
    /\ mainPc' = "close"
    /\ UNCHANGED <<cancelled, waitCh, wg>>
    /\ UNCHANGED brokerVars
    /\ UNCHANGED workerVars
    /\ UNCHANGED restVars

\* Variant of main_SelectTimeout: no timer, main only waits for waitCh.
main_SelectTimeout_NoTimer ==
    /\ mainPc = "select"
    /\ waitCh
    /\ shutdownPath' = "timeout"
    /\ mainPc' = "close"
    /\ UNCHANGED <<cancelled, waitCh, wg>>
    /\ UNCHANGED brokerVars
    /\ UNCHANGED workerVars
    /\ UNCHANGED restVars

\* case <-time.After(10 * time.Second):
main_SelectTimeout ==
    /\ mainPc = "select"
    /\ shutdownPath' = "timeout"
    /\ mainPc' = "close"
    /\ UNCHANGED <<cancelled, waitCh, wg>>
    /\ UNCHANGED brokerVars
    /\ UNCHANGED workerVars
    /\ UNCHANGED restVars

\* redisClient.Close()
main_Close ==
    /\ mainPc = "close"
    /\ connClosed' = TRUE
    /\ mainPc' = "return"
    /\ UNCHANGED <<stream, lastDelivered, pending>>
    /\ UNCHANGED <<cancelled, waitCh, wg, shutdownPath>>
    /\ UNCHANGED workerVars
    /\ UNCHANGED restVars

\* main returns: the process exits and every goroutine stops
main_Return ==
    /\ mainPc = "return"
    /\ mainPc' = "exited"
    /\ UNCHANGED <<cancelled, waitCh, wg, shutdownPath>>
    /\ UNCHANGED brokerVars
    /\ UNCHANGED workerVars
    /\ UNCHANGED restVars

----------------------------------------------------------------------------
(* Specification of the worker pool *)

Init ==
    /\ stream = <<>>
    /\ lastDelivered = 0
    /\ pending = {}
    /\ connClosed = FALSE
    /\ pc = [w \in Workers |-> "check"]
    /\ cur = [w \in Workers |-> NoToken]
    /\ reportFailed = [w \in Workers |-> {}]
    /\ log = <<>>
    /\ cancelled = FALSE
    /\ mainPc = "waitSignal"
    /\ waitCh = FALSE
    /\ wg = NumWorkers
    /\ shutdownPath = "none"
    /\ groupExists = TRUE
    /\ groupErr = "nil"
    /\ worker = [w \in Workers |-> NewWorker(w)]
    /\ messageStatuses = <<>>

\* The entries the producer appends: with or without the id field.  The body
\* is data only (no branch of the worker depends on it) and is always present
\* here.
Produce == \E hasId \in BOOLEAN : XAdd(hasId, TRUE)

WorkerStep(w) ==
    \/ run_CtxDone(w)
    \/ run_Default(w)
    \/ run_ReadMessage(w)
    \/ run_ReadNil(w)
    \/ run_ReadError(w)
    \/ run_ReadCanceled(w)
    \/ run_Backoff(w)
    \/ \E brokerOk \in BOOLEAN : processMessage_AckInvalid(w, brokerOk)
    \/ \E resp \in Responses : processMessage_ReportProcessing(w, resp)
    \/ processMessage_Execute(w)
    \/ \E resp \in Responses : processMessage_ReportCompleted(w, resp)
    \/ \E brokerOk \in BOOLEAN : processMessage_Ack(w, brokerOk)

MainAfterSignal ==
    \/ main_WaitGroup
    \/ main_SelectWaitCh
    \/ main_SelectTimeout
    \/ main_Close
    \/ main_Return

Next ==
    \/ Produce
    \/ \E w \in Workers : WorkerStep(w)
    \/ main_Signal
    \/ MainAfterSignal

Spec == Init /\ [][Next]_vars

\* An entry with the id field and without the body field.
ProduceNoBody == XAdd(TRUE, FALSE)

\* The worker pool with a producer that also appends entries without body.
NextBody ==
    \/ ProduceNoBody
    \/ Produce
    \/ \E w \in Workers : WorkerStep(w)
    \/ main_Signal
    \/ MainAfterSignal

SpecBody == Init /\ [][NextBody]_vars

----------------------------------------------------------------------------
(* Fair specifications of the worker pool *)

\* The steps of the main goroutine after the signal run to completion; the
\* workers may be arbitrarily slow.
SpecPool == Init /\ [][Next]_vars /\ WF_vars(MainAfterSignal)

\* The worker goroutines keep running while the process is alive: each
\* blocking claim returns, each report, execution and acknowledgment
\* finishes.  Nothing is assumed about the grace timer of main.
SpecWorkers == Init /\ [][Next]_vars /\ WF_vars(\E w \in Workers : WorkerStep(w))

\* A run without shutdown signal in which broker calls succeed: a failed
\* claim is retried and eventually returns the waiting entry, and XAck
\* answers without error.
RunStep(w) ==
    \/ run_Default(w)
    \/ run_ReadMessage(w)
    \/ run_ReadNil(w)
    \/ run_ReadError(w)
    \/ run_Backoff(w)
    \/ processMessage_AckInvalid(w, TRUE)
    \/ \E resp \in Responses : processMessage_ReportProcessing(w, resp)
    \/ processMessage_Execute(w)
    \/ \E resp \in Responses : processMessage_ReportCompleted(w, resp)
    \/ processMessage_Ack(w, TRUE)

NextRun ==
    \/ Produce
    \/ \E w \in Workers : RunStep(w)

SpecRun ==
    /\ Init
    /\ [][NextRun]_vars
    /\ \A w \in Workers : WF_vars(RunStep(w)) /\ SF_vars(run_ReadMessage(w))

----------------------------------------------------------------------------
(* backend/main.go: worker, updateStatus, main *)

\* updateStatus of backend/main.go prints the failure and returns nothing;
\* TRUE when the failure is printed.
backend_updateStatus(resp) == resp # "200"

\* XReadGroup (Block: 0) returns one message; a message without string id
\* is skipped with continue.
worker_ReadMessage(w) ==
    /\ pc[w] = "claim"
    /\ groupExists
    /\ NextID \in Tokens
    /\ lastDelivered' = NextID
    /\ pending' = pending \cup {NextID}
    /\ reportFailed' = [reportFailed EXCEPT ![w] = {}]
    /\ IF StringAssert(stream[NextID].id)
       THEN /\ pc' = [pc EXCEPT ![w] = "reportProcessing"]
            /\ cur' = [cur EXCEPT ![w] = NextID]
       ELSE /\ pc' = pc
            /\ cur' = [cur EXCEPT ![w] = NoToken]
    /\ UNCHANGED <<stream, connClosed, log>>
    /\ UNCHANGED mainVars
    /\ UNCHANGED restVars

\* XReadGroup returns an error
worker_ReadError(w) ==
    /\ pc[w] = "claim"
    /\ pc' = [pc EXCEPT ![w] = "backoff"]
    /\ UNCHANGED <<cur, reportFailed, log>>
    /\ UNCHANGED brokerVars
    /\ UNCHANGED mainVars
    /\ UNCHANGED restVars

\* time.Sleep(1 * time.Second); continue
worker_Backoff(w) ==
    /\ pc[w] = "backoff"
    /\ pc' = [pc EXCEPT ![w] = "claim"]
    /\ UNCHANGED <<cur, reportFailed, log>>
    /\ UNCHANGED brokerVars
    /\ UNCHANGED mainVars
    /\ UNCHANGED restVars

\* updateStatus(messageID, "processing", nil)
worker_ReportProcessing(w, resp) ==
    /\ pc[w] = "reportProcessing"
    /\ log' = AppendLog(cur[w], "processing")
    /\ reportFailed' = [reportFailed EXCEPT ![w] =
                           IF backend_updateStatus(resp) THEN @ \cup {"processing"} ELSE @]
    /\ pc' = [pc EXCEPT ![w] = "execute"]
    /\ UNCHANGED cur
    /\ UNCHANGED brokerVars
    /\ UNCHANGED mainVars
    /\ UNCHANGED restVars

\* time.Sleep(2 * time.Second) and the result is computed
worker_Execute(w) ==
    /\ pc[w] = "execute"
    /\ log' = AppendLog(cur[w], "execute")
    /\ pc' = [pc EXCEPT ![w] = "reportCompleted"]
    /\ UNCHANGED <<cur, reportFailed>>
    /\ UNCHANGED brokerVars
    /\ UNCHANGED mainVars
    /\ UNCHANGED restVars

\* updateStatus(messageID, "completed", result)
worker_ReportCompleted(w, resp) ==
    /\ pc[w] = "reportCompleted"
    /\ log' = AppendLog(cur[w], "completed")
    /\ reportFailed' = [reportFailed EXCEPT ![w] =
                           IF backend_updateStatus(resp) THEN @ \cup {"completed"} ELSE @]
    /\ pc' = [pc EXCEPT ![w] = "ack"]
    /\ UNCHANGED cur
    /\ UNCHANGED brokerVars
    /\ UNCHANGED mainVars
    /\ UNCHANGED restVars

\* rdb.XAck(ctx, stream, group, message.ID) and back to XReadGroup
worker_Ack(w, brokerOk) ==
    /\ pc[w] = "ack"
    /\ pending' = IF brokerOk THEN pending \ {cur[w]} ELSE pending
    /\ log' = AppendLog(cur[w], "ack")
    /\ pc' = [pc EXCEPT ![w] = "claim"]
    /\ cur' = [cur EXCEPT ![w] = NoToken]
    /\ reportFailed' = [reportFailed EXCEPT ![w] = {}]
    /\ UNCHANGED <<stream, lastDelivered, connClosed>>
    /\ UNCHANGED mainVars
    /\ UNCHANGED restVars

\* main of backend/main.go has started the workers and blocks in select {}.
InitBackend ==
    /\ stream = <<>>
    /\ lastDelivered = 0
    /\ pending = {}
    /\ connClosed = FALSE
    /\ pc = [w \in Workers |-> "claim"]
    /\ cur = [w \in Workers |-> NoToken]
    /\ reportFailed = [w \in Workers |-> {}]
    /\ log = <<>>
    /\ cancelled = FALSE
    /\ mainPc = "blocked"
    /\ waitCh = FALSE
    /\ wg = 0
    /\ shutdownPath = "none"
    /\ groupExists = TRUE
    /\ groupErr = "nil"
    /\ worker = [w \in Workers |-> NewWorker(w)]
    /\ messageStatuses = <<>>

BackendWorkerStep(w) ==
    \/ worker_ReadMessage(w)
    \/ worker_ReadError(w)
    \/ worker_Backoff(w)
    \/ \E resp \in Responses : worker_ReportProcessing(w, resp)
    \/ worker_Execute(w)
    \/ \E resp \in Responses : worker_ReportCompleted(w, resp)
    \/ \E brokerOk \in BOOLEAN : worker_Ack(w, brokerOk)

NextBackend ==
    \/ Produce
    \/ \E w \in Workers : BackendWorkerStep(w)

SpecBackend == InitBackend /\ [][NextBackend]_vars

----------------------------------------------------------------------------
(* Startup of main: createConsumerGroup and the loop that starts the workers *)

\* The workers main has started so far; their number is the loop index i.
Started == {w \in Workers : pc[w] # "notStarted"}

\* XGroupCreate(ctx, stream, group, "0"): the error of the call.  A group
\* that exists answers BUSYGROUP; "ERR" stands for every other failure (no
\* connection, no stream key).
XGroupCreate(brokerOk) ==
    IF ~brokerOk THEN "ERR"
    ELSE IF groupExists THEN "BUSYGROUP"
    ELSE "nil"

\* Variant of createConsumerGroup: BUSYGROUP is returned like any other error.
createConsumerGroup_NoBusy(err) == err

\* createConsumerGroup: the error it returns for the error of XGroupCreate
createConsumerGroup(err) ==
    IF err # "nil" /\ err # "BUSYGROUP" THEN err ELSE "nil"

\* if err := createConsumerGroup(...); err != nil { logger.Fatalf(...) }
\* A created group starts at id "0" with an empty pending entries list.
main_createConsumerGroup(brokerOk) ==
    /\ mainPc = "createConsumerGroup"
    /\ LET err == XGroupCreate(brokerOk) IN
         /\ groupExists' = (groupExists \/ err = "nil")
         /\ lastDelivered' = IF err = "nil" THEN 0 ELSE lastDelivered
         /\ pending' = IF err = "nil" THEN {} ELSE pending
         /\ groupErr' = createConsumerGroup(err)
         /\ mainPc' = IF createConsumerGroup(err) = "nil"
                      THEN "startWorkers"
                      ELSE "fatal"
    /\ UNCHANGED <<stream, connClosed>>
    /\ UNCHANGED workerVars
    /\ UNCHANGED <<cancelled, waitCh, wg, shutdownPath>>
    /\ UNCHANGED <<worker, messageStatuses>>

\* for i := 0; i < config.WorkerCount; i++ { wg.Add(1); worker := ...; go ... }
main_StartWorker ==
    /\ mainPc = "startWorkers"
    /\ LET i == Cardinality(Started) IN
         /\ i < NumWorkers
         /\ wg' = wg + 1
         /\ worker' = (i :> NewWorker(i)) @@ worker
         /\ pc' = [pc EXCEPT ![i] = "check"]
    /\ UNCHANGED <<cur, reportFailed, log>>
    /\ UNCHANGED brokerVars
    /\ UNCHANGED <<cancelled, mainPc, waitCh, shutdownPath>>
    /\ UNCHANGED <<groupExists, groupErr, messageStatuses>>

\* the loop ends: main waits for the signal
main_WorkersStarted ==
    /\ mainPc = "startWorkers"
    /\ Cardinality(Started) = NumWorkers
    /\ mainPc' = "waitSignal"
    /\ UNCHANGED <<cancelled, waitCh, wg, shutdownPath>>
    /\ UNCHANGED brokerVars
    /\ UNCHANGED workerVars
    /\ UNCHANGED restVars

\* The process has ended (Fatalf, or killed while it waits for the signal)
\* and the program is run again against the same broker.
main_Rerun ==
    /\ mainPc \in {"fatal", "waitSignal"}
    /\ mainPc' = "createConsumerGroup"
    /\ pc' = [w \in Workers |-> "notStarted"]
    /\ cur' = [w \in Workers |-> NoToken]
    /\ reportFailed' = [w \in Workers |-> {}]
    /\ wg' = 0
    /\ groupErr' = "nil"
    /\ worker' = <<>>
    /\ UNCHANGED log
    /\ UNCHANGED brokerVars
    /\ UNCHANGED <<cancelled, waitCh, shutdownPath>>
    /\ UNCHANGED <<groupExists, messageStatuses>>

\* The broker states a process can find at startup: a stream with entries,
\* no group on it or a group that has delivered some of the entries, some of
\* them still pending.
InitBoot ==
    /\ stream \in UNION {[1 .. n -> {[id |-> StringValue, body |-> StringValue]}] :
                            n \in 0 .. MaxRecords}
    /\ groupExists \in BOOLEAN
    /\ lastDelivered \in 0 .. Len(stream)
    /\ pending \in SUBSET (1 .. lastDelivered)
    /\ groupExists \/ lastDelivered = 0
    /\ connClosed = FALSE
    /\ pc = [w \in Workers |-> "notStarted"]
    /\ cur = [w \in Workers |-> NoToken]
    /\ reportFailed = [w \in Workers |-> {}]
    /\ log = [t \in 1 .. Len(stream) |-> <<>>]
    /\ cancelled = FALSE
    /\ mainPc = "createConsumerGroup"
    /\ waitCh = FALSE
    /\ wg = 0
    /\ shutdownPath = "none"
    /\ groupErr = "nil"
    /\ worker = <<>>
    /\ messageStatuses = <<>>

NextBoot ==
    \/ \E brokerOk \in BOOLEAN : main_createConsumerGroup(brokerOk)
    \/ main_StartWorker
    \/ main_WorkersStarted
    \/ \E w \in Started : RunStep(w)
    \/ main_Rerun

SpecBoot == InitBoot /\ [][NextBoot]_vars

----------------------------------------------------------------------------
(* Startup of main of backend/main.go *)

\* err := rdb.XGroupCreate(...).Err(); an error other than BUSYGROUP is
\* printed and main goes on
backend_main_XGroupCreate(brokerOk) ==
    /\ mainPc = "createConsumerGroup"
    /\ LET err == XGroupCreate(brokerOk) IN
         /\ groupExists' = (groupExists \/ err = "nil")
         /\ lastDelivered' = IF err = "nil" THEN 0 ELSE lastDelivered
         /\ pending' = IF err = "nil" THEN {} ELSE pending
         /\ groupErr' = err
    /\ mainPc' = "startWorkers"
    /\ UNCHANGED <<stream, connClosed>>
    /\ UNCHANGED workerVars
    /\ UNCHANGED <<cancelled, waitCh, wg, shutdownPath>>
    /\ UNCHANGED <<worker, messageStatuses>>

\* for i := 0; i < 5; i++ { go worker(i, consumerName, groupName, streamName) }
backend_main_StartWorker ==
    /\ mainPc = "startWorkers"
    /\ LET i == Cardinality(Started) IN
         /\ i < NumWorkers
         /\ worker' = (i :> NewWorker(i)) @@ worker
         /\ pc' = [pc EXCEPT ![i] = "claim"]
    /\ UNCHANGED <<cur, reportFailed, log>>
    /\ UNCHANGED brokerVars
    /\ UNCHANGED mainVars
    /\ UNCHANGED <<groupExists, groupErr, messageStatuses>>

\* select {}
backend_main_Blocked ==
    /\ mainPc = "startWorkers"
    /\ Cardinality(Started) = NumWorkers
    /\ mainPc' = "blocked"
    /\ UNCHANGED <<cancelled, waitCh, wg, shutdownPath>>
    /\ UNCHANGED brokerVars
    /\ UNCHANGED workerVars
    /\ UNCHANGED restVars

InitBackendBoot == InitBoot

NextBackendBoot ==
    \/ \E brokerOk \in BOOLEAN : backend_main_XGroupCreate(brokerOk)
    \/ backend_main_StartWorker
    \/ backend_main_Blocked
    \/ \E w \in Started : BackendWorkerStep(w)

SpecBackendBoot == InitBackendBoot /\ [][NextBackendBoot]_vars

----------------------------------------------------------------------------
(* The API: /produce, /status/:id, /update-status, and the workers' reports *)

\* The job ids: the readings of Date.now() at the calls of /produce, taken
\* to differ from call to call and numbered in the order of the calls.
JobIds == 1 .. MaxRecords

\* An id that /produce never makes and that names a property every object
\* inherits from Object.prototype ("constructor", "toString", ...).
\* messageStatuses is a plain object ({}), so messageStatuses[id] finds the
\* inherited value for it.
ProtoKey == MaxRecords + 1

\* The ids a request can carry
Ids == JobIds \cup {ProtoKey}

\* The ids /produce has registered
Registered == DOMAIN messageStatuses \cap JobIds

\* if (messageStatuses[id]): the lookup gives a truthy value, an entry of
\* the store or an inherited property
Found(id) == id \in DOMAIN messageStatuses \/ id = ProtoKey

\* POST /produce: the id is registered as 'pending' with its timestamp;
\* nothing is written to the stream.  The entry has no completedAt field.
api_produce ==
    /\ Cardinality(Registered) < MaxRecords
    /\ LET id == Cardinality(Registered) + 1 IN
         messageStatuses' = (id :> [status      |-> "pending",
                                    result      |-> NoValue,
                                    timestamp   |-> id,
                                    completedAt |-> "undefined"]) @@ messageStatuses
    /\ UNCHANGED brokerVars
    /\ UNCHANGED workerVars
    /\ UNCHANGED mainVars
    /\ UNCHANGED bootVars

\* GET /status/:id: the value the lookup finds, or 404
api_status(id) ==
    IF id \in DOMAIN messageStatuses
    THEN [code |-> "200", body |-> messageStatuses[id]]
    ELSE IF Found(id)
    THEN [code |-> "200", body |-> [inherited |-> id]]
    ELSE [code |-> "404", body |-> [error |-> "Message not found"]]

\* Variant of api_updateStatus: completedAt is set on every update.
api_updateStatus_AlwaysCompletedAt(id, status, result) ==
    IF id \in DOMAIN messageStatuses
    THEN [messageStatuses EXCEPT ![id] =
             [@ EXCEPT !.status = status, !.result = result, !.completedAt = "time"]]
    ELSE messageStatuses

\* POST /update-status: the store after the call.  When the lookup finds an
\* entry, the entry keeps its fields and gets the status and the result of
\* the request, and completedAt is a time for 'completed' and null
\* otherwise.  When it finds an inherited property, the spread of that value
\* has no field and an entry with status, result and completedAt only is
\* stored under the id.  When it finds nothing, nothing changes.
api_updateStatus(id, status, result) ==
    IF id \in DOMAIN messageStatuses
    THEN [messageStatuses EXCEPT ![id] =
             [@ EXCEPT !.status = status,
                       !.result = result,
                       !.completedAt = IF status = "completed" THEN "time" ELSE "null"]]
    ELSE IF Found(id)
    THEN (id :> [status      |-> status,
                 result      |-> result,
                 timestamp   |-> "undefined",
                 completedAt |-> IF status = "completed" THEN "time" ELSE "null"])
         @@ messageStatuses
    ELSE messageStatuses

\* POST /update-status: the status code of the answer
api_updateStatus_Code(id) ==
    IF Found(id) THEN "200" ELSE "404"

\* POST /update-status sent by any client
api_postUpdateStatus(id, status, result) ==
    /\ messageStatuses' = api_updateStatus(id, status, result)
    /\ UNCHANGED brokerVars
    /\ UNCHANGED workerVars
    /\ UNCHANGED mainVars
    /\ UNCHANGED bootVars

\* The API alone, with clients that call /produce and /update-status.
NextApi ==
    \/ api_produce
    \/ \E id \in Ids, status \in {"processing", "completed"},
          result \in {NoValue, StringValue} :
            api_postUpdateStatus(id, status, result)

SpecApi == Init /\ [][NextApi]_vars

\* What can happen to a request of the worker: it is answered, it never
\* reaches the API, or the API handles it and the answer does not arrive.
\* The worker goes on after the exchange has ended.
Exchanges == {"answered", "requestLost", "responseLost"}

\* The answer the worker sees
ResponseOf(net, id) ==
    IF net = "answered" THEN api_updateStatus_Code(id) ELSE "transportError"

\* updateStatus(messageID, "processing", nil) against the API; the error the
\* worker gets is logged and processMessage goes on
report_Processing(w, net) ==
    /\ Alive
    /\ pc[w] = "reportProcessing"
    /\ messageStatuses' = IF net = "requestLost"
                          THEN messageStatuses
                          ELSE api_updateStatus(stream[cur[w]].id, "processing", NoValue)
    /\ log' = AppendLog(cur[w], "processing")
    /\ pc' = [pc EXCEPT ![w] = "execute"]
    /\ UNCHANGED <<cur, reportFailed>>
    /\ UNCHANGED brokerVars
    /\ UNCHANGED mainVars
    /\ UNCHANGED bootVars

\* updateStatus(messageID, "completed", result) against the API; the error
\* the worker gets is logged and processMessage goes on
report_Completed(w, net) ==
    /\ Alive
    /\ pc[w] = "reportCompleted"
    /\ messageStatuses' = IF net = "requestLost"
                          THEN messageStatuses
                          ELSE api_updateStatus(stream[cur[w]].id, "completed", StringValue)
    /\ log' = AppendLog(cur[w], "completed")
    /\ pc' = [pc EXCEPT ![w] = "ack"]
    /\ UNCHANGED <<cur, reportFailed>>
    /\ UNCHANGED brokerVars
    /\ UNCHANGED mainVars
    /\ UNCHANGED bootVars

\* XADD by the producer: an entry that carries a job id and a body.
XAddJob(id) ==
    /\ Len(stream) < MaxRecords
    /\ stream' = Append(stream, [id |-> id, body |-> StringValue])
    /\ log' = Append(log, <<>>)
    /\ UNCHANGED <<lastDelivered, pending, connClosed>>
    /\ UNCHANGED <<pc, cur, reportFailed>>
    /\ UNCHANGED mainVars
    /\ UNCHANGED restVars

\* A worker of the pool in a run without shutdown signal, with its reports
\* sent to the API.  XAck answers without error: its outcome reaches
\* neither the API nor the control flow of the worker.
StatusStep(w) ==
    \/ run_Default(w)
    \/ run_ReadMessage(w)
    \/ run_ReadNil(w)
    \/ run_ReadError(w)
    \/ run_Backoff(w)
    \/ \E net \in Exchanges : report_Processing(w, net)
    \/ processMessage_Execute(w)
    \/ \E net \in Exchanges : report_Completed(w, net)
    \/ processMessage_Ack(w, TRUE)

NextStatus ==
    \/ api_produce
    \/ \E id \in JobIds : XAddJob(id)
    \/ \E w \in Workers : StatusStep(w)

SpecStatus == Init /\ [][NextStatus]_vars

\* The workers keep running, the broker answers and a claim eventually
\* returns a waiting entry.  Nothing is assumed about the producer: no code
\* of the repository writes to the stream.
SpecStatusFair ==
    /\ Init
    /\ [][NextStatus]_vars
    /\ \A w \in Workers : WF_vars(StatusStep(w)) /\ SF_vars(run_ReadMessage(w))

----------------------------------------------------------------------------
(* Properties *)

Delivered == 1 .. lastDelivered

\* the id field of entry t is a string
WellFormed(t) == StringAssert(stream[t].id)

Steps(t) == {log[t][i] : i \in DOMAIN log[t]}

Count(t, step) == Cardinality({i \in DOMAIN log[t] : log[t][i] = step})

IsPrefix(a, b) == Len(a) <= Len(b) /\ a = SubSeq(b, 1, Len(a))

FullLog == <<"processing", "execute", "completed", "ack">>

Held(t) == \E w \in Workers : Holding(w, t)

AllExited == \A w \in Workers : pc[w] = "exited"

Idle == {"check", "claim", "backoff"}

\* C1: Exclusivity.  In every reachable state at most one worker is between
\* the claim and the acknowledgment of a given delivery token, and the token
\* it holds was delivered by the group and is pending.
C1_Exclusivity ==
    \A t \in Tokens :
        /\ Cardinality({w \in Workers : Holding(w, t)}) <= 1
        /\ Held(t) => (t \in Delivered /\ t \in pending)

\* Two workers are mid-item at the same time, each on its own token.
C1_Witness ==
    \E w1 \in Workers, w2 \in Workers :
        /\ w1 # w2
        /\ pc[w1] \in ItemStates /\ pc[w2] \in ItemStates
        /\ cur[w1] # cur[w2]
        /\ cur[w1] \in pending /\ cur[w2] \in pending

\* C2: At-least-once completion.  In a run without shutdown signal where
\* broker calls succeed, every well-formed entry of the stream eventually has
\* had exactly one 'completed' report sent and is acknowledged (delivered and
\* no longer pending); no entry ever has more than one 'completed' report.
C2_AtLeastOnce ==
    /\ \A t \in 1 .. MaxRecords :
          (t \in Tokens /\ WellFormed(t))
              ~> (/\ t \in Delivered
                  /\ t \notin pending
                  /\ Count(t, "completed") = 1
                  /\ Count(t, "ack") = 1)
    /\ [](\A t \in Tokens : Count(t, "completed") <= 1)

\* A well-formed entry has gone through the whole pipeline and is acknowledged.
C2_Witness ==
    \E t \in Delivered :
        /\ WellFormed(t)
        /\ log[t] = FullLog
        /\ t \notin pending

\* C3: Best-effort isolation.  After a failed 'processing' or 'completed'
\* report (or both) the worker is exactly where it is without the failure:
\* it executes, sends the 'completed' report and is at the acknowledgment;
\* and a worker leaves the acknowledgment only by issuing it, whatever the
\* reports answered.
C3_BestEffortIsolation ==
    /\ [](\A w \in Workers :
            (cur[w] # NoToken /\ reportFailed[w] # {}) =>
                \/ pc[w] = "execute" /\ log[cur[w]] = SubSeq(FullLog, 1, 1)
                \/ pc[w] = "reportCompleted" /\ log[cur[w]] = SubSeq(FullLog, 1, 2)
                \/ pc[w] = "ack" /\ log[cur[w]] = SubSeq(FullLog, 1, 3))
    /\ [][\A w \in Workers :
            (pc[w] = "ack" /\ pc'[w] # "ack") =>
                (pc'[w] = "check" /\ log'[cur[w]] = FullLog)]_vars

\* Both reports of an item failed; the worker has executed the item and is
\* at its acknowledgment.
C3_Witness ==
    \E w \in Workers :
        /\ pc[w] = "ack"
        /\ reportFailed[w] = {"processing", "completed"}
        /\ log[cur[w]] = SubSeq(FullLog, 1, 3)

\* C4: Poison item in the pooled Worker.  For an entry whose id is not a
\* string the only step ever performed is one acknowledgment: the worker that
\* holds it is at that acknowledgment with nothing done yet, its next step
\* issues the acknowledgment and takes it back to the cancellation check, and
\* once no worker holds the entry it has been acknowledged exactly once, with
\* no report and no execution.
C4_PoisonItem ==
    /\ [](\A t \in Tokens :
            ~WellFormed(t) =>
                /\ IsPrefix(log[t], <<"ack">>)
                /\ \A w \in Workers :
                      Holding(w, t) => (pc[w] = "ackInvalid" /\ log[t] = <<>>)
                /\ (t \in Delivered /\ ~Held(t)) => log[t] = <<"ack">>)
    /\ [][\A w \in Workers :
            (pc[w] = "ackInvalid" /\ pc'[w] # "ackInvalid") =>
                (pc'[w] = "check" /\ log'[cur[w]] = <<"ack">>)]_vars

\* A poison entry was delivered and acknowledged, and no worker holds it.
C4_Witness ==
    \E t \in Delivered :
        /\ ~WellFormed(t)
        /\ ~Held(t)
        /\ log[t] = <<"ack">>
        /\ t \notin pending

\* C5: Poison item in backend/main.go.  An entry whose id is not a string
\* and that the worker has finished handling is no longer in the pending
\* entries list of the group.
C5_PoisonItemBackend ==
    \A t \in Delivered :
        (~WellFormed(t) /\ ~Held(t)) => t \notin pending

\* The records that may have been delivered to a worker that has exited: the
\* delivered records that no other worker holds (a worker holds only what was
\* delivered to it).
DeliveredToExited == {t \in Delivered : ~Held(t)}

ExitOnlyFromIdle ==
    [][\A w \in Workers :
          (pc[w] # "exited" /\ pc'[w] = "exited") => pc[w] \in {"check", "claim"}]_vars

\* C6 as stated: a run loop returns only from Idle or from a claim that
\* delivered nothing, and once a worker has exited every record delivered to
\* it has had its 'completed' report and its acknowledgment attempted.
C6_Original ==
    /\ ExitOnlyFromIdle
    /\ [](\A w \in Workers :
            pc[w] = "exited" =>
                \A t \in DeliveredToExited :
                    "completed" \in Steps(t) /\ "ack" \in Steps(t))

\* C6 (amended): a run loop returns only from Idle or from a claim that
\* delivered nothing, and once a worker has exited every record delivered to
\* it has had its acknowledgment attempted and, when its id is a string, its
\* 'completed' report attempted before that.
C6_NoAbandonment ==
    /\ ExitOnlyFromIdle
    /\ [](\A w \in Workers :
            pc[w] = "exited" =>
                \A t \in DeliveredToExited :
                    /\ "ack" \in Steps(t)
                    /\ WellFormed(t) => log[t] = FullLog
                    /\ ~WellFormed(t) => log[t] = <<"ack">>)

\* All workers have exited after the signal; a well-formed and a poison
\* record were delivered and handled to the end.
C6_Witness ==
    /\ cancelled
    /\ AllExited
    /\ \E t \in Delivered : WellFormed(t) /\ log[t] = FullLog
    /\ \E t \in Delivered : ~WellFormed(t) /\ log[t] = <<"ack">>

\* C7 as stated: after the signal, no worker that is between items receives
\* a record from a claim call.
C7_Original ==
    [][\A w \in Workers :
          (cancelled /\ pc[w] \in Idle) => pc'[w] \notin ItemStates]_vars

\* C7 (amended): after the signal no worker issues a new claim call: a worker
\* at its cancellation check or in the backoff sleep never claims again.
\* Only a claim call already in flight when the signal was issued can still
\* return a record.
C7_NoNewClaim ==
    [][\A w \in Workers :
          (cancelled /\ pc[w] # "claim") =>
              /\ pc'[w] # "claim"
              /\ pc[w] \in Idle => pc'[w] \notin ItemStates]_vars

\* The signal was issued, a worker has exited through its cancellation check
\* or its claim, and an entry is still waiting undelivered in the stream.
C7_Witness ==
    /\ cancelled
    /\ NextID \in Tokens
    /\ \E w \in Workers : pc[w] = "exited"

\* C8 as stated: after the signal every worker's run loop eventually returns.
C8_Original == cancelled ~> AllExited

\* C8 (amended): after the signal every worker's run loop eventually
\* returns, unless the grace timer of main fires first.
C8_ShutdownLiveness == cancelled ~> (AllExited \/ shutdownPath = "timeout")

\* All workers returned after the signal and main took the waitCh case.
C8_Witness ==
    /\ cancelled
    /\ AllExited
    /\ shutdownPath = "graceful"
    /\ lastDelivered > 0

\* C9: Connection release ordering.  The connection is closed only after the
\* signal and after all workers returned or the timer fired; on the waitCh
\* path all workers have returned, so a worker that is at a claim or holds an
\* unacknowledged item while the connection is closed exists only on the
\* timeout path.
C9_ReleaseOrdering ==
    /\ connClosed => (cancelled /\ (AllExited \/ shutdownPath = "timeout"))
    /\ shutdownPath = "graceful" => (waitCh /\ AllExited)
    /\ \A w \in Workers :
          (connClosed /\ pc[w] \in ItemStates \cup {"claim"})
              => shutdownPath = "timeout"

\* The connection was closed on the waitCh path after items were processed.
C9_Witness ==
    /\ connClosed
    /\ shutdownPath = "graceful"
    /\ AllExited
    /\ lastDelivered > 0

\* C10: Pool termination.  Once the signal is received main eventually
\* closes the connection and returns, whatever the workers do.
C10_PoolTermination == cancelled ~> (connClosed /\ mainPc = "exited")

\* The process has exited with the connection closed while a worker never
\* returned from its item.
C10_Witness ==
    /\ mainPc = "exited"
    /\ connClosed
    /\ \E w \in Workers : pc[w] \in ItemStates
\* C11: Idempotent group creation.  When the group exists and XGroupCreate
\* answers BUSYGROUP, createConsumerGroup returns no error, main goes on to
\* start the workers, and the group's last-delivered id and pending entries
\* list are what they were; no step of the group creation removes the group
\* or changes the state of a group that exists, so a second startup leaves
\* the group as the first one left it.  Workers are only started after the
\* group has been ensured.
C11_IdempotentGroupCreation ==
    /\ [][(groupExists /\ main_createConsumerGroup(TRUE)) =>
             /\ mainPc' = "startWorkers"
             /\ groupErr' = "nil"
             /\ groupExists'
             /\ lastDelivered' = lastDelivered
             /\ pending' = pending]_vars
    /\ [][(groupExists /\ mainPc = "createConsumerGroup") =>
             /\ groupExists'
             /\ lastDelivered' = lastDelivered
             /\ pending' = pending]_vars
    /\ [](Started # {} => (groupExists /\ groupErr = "nil"))

\* The group creation has run on a group that had delivered entries, some of
\* them pending, and main is about to start the workers.
C11_Witness ==
    /\ mainPc = "startWorkers"
    /\ Started = {}
    /\ groupErr = "nil"
    /\ lastDelivered > 0
    /\ pending # {}

\* C12: Fatal bootstrap error.  When the group creation has failed with an
\* error other than BUSYGROUP, no worker is started and no claim is issued.
C12_FatalBootstrap == groupErr = "ERR" => Started = {}
\* C13: Retry forever on claim errors.  A claim error takes the worker to
\* the backoff sleep and nothing else changes; the backoff sleep ends at the
\* cancellation check; a run loop returns only when the signal has been
\* issued, and the process exits only after the signal.
C13_RetryForever ==
    /\ [][\A w \in Workers :
            run_ReadError(w) =>
                (pc'[w] = "backoff" /\ mainPc' = mainPc /\ wg' = wg)]_vars
    /\ [][\A w \in Workers :
            (pc[w] = "backoff" /\ pc'[w] # "backoff") => pc'[w] = "check"]_vars
    /\ [][\A w \in Workers :
            (pc[w] # "exited" /\ pc'[w] = "exited") => cancelled]_vars
    /\ [](\A w \in Workers : pc[w] = "exited" => cancelled)
    /\ [](~Alive => cancelled)

\* A claim has failed while an entry was waiting: the worker is in the
\* backoff sleep, no signal was issued and every worker is in its loop.
C13_Witness ==
    /\ ~cancelled
    /\ NextID \in Tokens
    /\ \E w \in Workers : pc[w] = "backoff"
    /\ \A w \in Workers : pc[w] # "exited"
    /\ Alive

\* C14: Pool shape.  main builds one Worker per index below WorkerCount:
\* when the loop has ended exactly WorkerCount workers have been started,
\* the consumer names of two started workers differ, and every started
\* worker carries the one stream name and the one group name of the config.
C14_PoolShape ==
    /\ DOMAIN worker = Started
    /\ Cardinality(Started) <= NumWorkers
    /\ mainPc = "waitSignal" =>
           (Cardinality(Started) = NumWorkers /\ wg = NumWorkers)
    /\ \A w1 \in Started, w2 \in Started :
           w1 # w2 => worker[w1].consumer # worker[w2].consumer
    /\ \A w \in Started :
           worker[w].stream = StreamName /\ worker[w].group = GroupName

\* The loop has ended, all workers are started and all have issued a claim.
C14_Witness ==
    /\ mainPc = "waitSignal"
    /\ Started = Workers
    /\ \A w \in Workers : pc[w] = "claim"

\* C16: Per-item step order.  The steps performed on an entry whose id is a
\* string are always a prefix of: 'processing' report, execution,
\* 'completed' report, acknowledgment (each at most once, in this order);
\* the worker that holds the entry is at the step after that prefix; a
\* worker leaves an item only by the acknowledgment attempt, to the
\* cancellation check, and a worker that is between items holds nothing, so
\* its next claim comes after the acknowledgment attempt.
C16_StepOrder ==
    /\ [](\A t \in Tokens : WellFormed(t) => IsPrefix(log[t], FullLog))
    /\ [](\A w \in Workers :
            /\ pc[w] = "reportProcessing" => log[cur[w]] = <<>>
            /\ pc[w] = "execute" => log[cur[w]] = SubSeq(FullLog, 1, 1)
            /\ pc[w] = "reportCompleted" => log[cur[w]] = SubSeq(FullLog, 1, 2)
            /\ pc[w] = "ack" => log[cur[w]] = SubSeq(FullLog, 1, 3)
            /\ pc[w] \in Idle => cur[w] = NoToken)
    /\ [](\A t \in Delivered : (WellFormed(t) /\ ~Held(t)) => log[t] = FullLog)
    /\ [][\A w \in Workers :
            (pc[w] \in ItemStates /\ pc'[w] \notin ItemStates) =>
                /\ pc'[w] = "check"
                /\ log'[cur[w]] = Append(log[cur[w]], "ack")]_vars

\* An entry has gone through all four steps and a worker holds an entry
\* that was claimed after it.
C16_Witness ==
    \E w \in Workers, t \in Delivered :
        /\ WellFormed(t)
        /\ log[t] = FullLog
        /\ pc[w] \in ItemStates
        /\ cur[w] > t
        /\ t \notin pending
        /\ ~cancelled

\* C17: No re-claim after delivery.  The group's last-delivered id never
\* goes back and a delivered entry that no worker holds is never held again;
\* no entry is executed or acknowledged more than once; a worker leaves the
\* acknowledgment for the cancellation check whether the XAck succeeded or
\* not; an entry whose acknowledgment failed stays in the pending list.
C17_NoReclaim ==
    /\ [][lastDelivered' >= lastDelivered]_vars
    /\ [][\A t \in Delivered : ~Held(t) => ~(Held(t))']_vars
    /\ [](\A t \in Tokens : Count(t, "execute") <= 1 /\ Count(t, "ack") <= 1)
    /\ [][\A w \in Workers :
            (pc[w] \in {"ack", "ackInvalid"} /\ pc'[w] # pc[w]) =>
                pc'[w] = "check"]_vars
    /\ [][\A t \in Delivered :
            ("ack" \in Steps(t) /\ t \in pending) => t \in pending']_vars

\* The acknowledgment of an executed entry failed while the connection was
\* open: the entry is pending, no worker holds it, and a worker has issued
\* its next claim.
C17_Witness ==
    /\ ~connClosed
    /\ \E t \in Delivered : log[t] = FullLog /\ t \in pending /\ ~Held(t)
    /\ \E w \in Workers : pc[w] = "claim"

\* C18: Empty claim is not an error.  When XReadGroup returns no record
\* after its block timeout the worker does not enter the backoff sleep, and
\* no report and no acknowledgment is issued.
C18_EmptyClaim ==
    [][\A w \in Workers :
          run_ReadNil(w) =>
              (pc'[w] # "backoff" /\ log' = log /\ pending' = pending)]_vars
\* C19: Missing body is poison too.  For an entry without a string body the
\* only step ever performed is the acknowledgment: no 'processing' report,
\* no execution, no 'completed' report.
C19_MissingBodyPoison ==
    \A t \in Tokens :
        ~StringAssert(stream[t].body) => IsPrefix(log[t], <<"ack">>)
\* The stream entries that carry job id
RecordsOf(id) == {t \in Tokens : stream[t].id = id}

\* C15: End-to-end submission.  Every id registered by POST /produce is
\* eventually carried by a delivered stream entry and GET /status/:id
\* eventually answers 'completed' with the result for it.
C15_EndToEnd ==
    \A id \in JobIds :
        (id \in DOMAIN messageStatuses)
            ~> (/\ \E t \in Delivered : stream[t].id = id
                /\ api_status(id).code = "200"
                /\ api_status(id).body.status = "completed"
                /\ api_status(id).body.result # NoValue)

\* pending -> processing -> completed
Rank(status) ==
    CASE status = "pending" -> 0
      [] status = "processing" -> 1
      [] status = "completed" -> 2

\* C20: Monotone lifecycle in the status store.  For a registered job id
\* that at most one stream entry carries, no step moves the status back
\* along pending -> processing -> completed, whatever the workers do and
\* whichever reports are lost; and for every registered id completedAt is a
\* time exactly when the status is 'completed', and the result is set only
\* then.
C20_MonotoneLifecycle ==
    /\ [][\A id \in DOMAIN messageStatuses :
            Cardinality(RecordsOf(id)) <= 1 =>
                Rank(messageStatuses'[id].status) >= Rank(messageStatuses[id].status)]_vars
    /\ [](\A id \in DOMAIN messageStatuses :
            /\ messageStatuses[id].status \in {"pending", "processing", "completed"}
            /\ messageStatuses[id].completedAt = "time"
                   <=> messageStatuses[id].status = "completed"
            /\ messageStatuses[id].result # NoValue
                   => messageStatuses[id].status = "completed")

\* Two registered ids, each carried by one entry, are held by two workers at
\* the same time; one has reached 'completed', the other is 'processing'.
C20_Witness ==
    \E id1 \in DOMAIN messageStatuses, id2 \in DOMAIN messageStatuses :
        /\ Cardinality(RecordsOf(id1)) = 1
        /\ Cardinality(RecordsOf(id2)) = 1
        /\ \E w1 \in Workers, w2 \in Workers :
              /\ pc[w1] = "ack" /\ stream[cur[w1]].id = id1
              /\ pc[w2] = "execute" /\ stream[cur[w2]].id = id2
        /\ messageStatuses[id1].status = "completed"
        /\ messageStatuses[id1].completedAt = "time"
        /\ messageStatuses[id2].status = "processing"
        /\ messageStatuses[id2].completedAt = "null"
\* C21: Status update for an unknown id.  A POST /update-status for an id
\* that /produce has not registered is answered 404 and leaves the store as
\* it is; for a registered id it is answered 200, the entry gets the status
\* and the result of the request, keeps its timestamp, and no other entry
\* is created or altered.
C21_UnknownId ==
    [][\A id \in Ids, status \in {"processing", "completed"},
          result \in {NoValue, StringValue} :
          api_postUpdateStatus(id, status, result) =>
              IF id \in Registered
              THEN /\ api_updateStatus_Code(id) = "200"
                   /\ DOMAIN messageStatuses' = DOMAIN messageStatuses
                   /\ messageStatuses'[id].status = status
                   /\ messageStatuses'[id].result = result
                   /\ messageStatuses'[id].timestamp = messageStatuses[id].timestamp
                   /\ \A other \in DOMAIN messageStatuses :
                         other # id => messageStatuses'[other] = messageStatuses[other]
              ELSE /\ api_updateStatus_Code(id) = "404"
                   /\ messageStatuses' = messageStatuses]_vars

====
